---- MODULE Spec2Model ----
(***************************************************************************)
(* A model of the tide clock: the tide data model (tides/mod.rs), the      *)
(* interpolation helpers (maths.rs), the graph rendering (display.rs) and  *)
(* the main loop (main.rs).                                                *)
(*                                                                         *)
(* Conventions.                                                            *)
(*  - Time is counted in whole minutes since an arbitrary epoch; a sample's *)
(*    `dt` and `date` denote the same instant.                              *)
(*  - An f32 is an exact rational [n |-> numerator, d |-> denominator > 0]. *)
(*    Raw heights are whole numbers of height units (d = 1).                *)
(*  - Indices are 0-based as in the Rust code; Seq positions are index + 1. *)
(*  - A call that can panic returns [ok |-> BOOLEAN, val |-> ...]; ok is    *)
(*    FALSE when an assert!, an unwrap() or a checked arithmetic operation  *)
(*    panics.                                                               *)
(***************************************************************************)
EXTENDS Integers, Sequences, FiniteSets, TLC

VARIABLES
    pc,          \* position of the running program / of the call under check
    args,        \* arguments of the function under check
    ret,         \* its result
    tide_data,   \* the TideResponse the model is built from
    tide_model,  \* main.rs: tide_model
    now,         \* main.rs: now (Local::now())
    window,      \* the TideModelWindow returned by get_window
    freshness,   \* the DataFreshness returned with it
    retries,     \* main.rs: retries
    canvas,      \* GraphCanvas pos and bounds of the frame being painted
    img,         \* the frame buffer: its size and its white pixels
    trace        \* what the passes of the last paint wrote (observation only)

vars == <<pc, args, ret, tide_data, tide_model, now, window, freshness,
          retries, canvas, img, trace>>

(***************************************************************************)
(* Bounds of the model.                                                    *)
(***************************************************************************)
\* interpolation arguments range over -MaxRaw .. MaxRaw
MaxRaw == 2

\* a short series has at most MaxShort samples
MaxShort == 3

\* a response lists at most MaxExt extreme events
MaxExt == 2

\* a long series has up to LongLen samples
LongLen == 114

\* the clock is read at up to MaxNowTick + 1 instants
MaxNowTick == 6

(***************************************************************************)
(* f32 as exact rationals.                                                 *)
(***************************************************************************)
Rat(n, d) == [n |-> n, d |-> d]

RInt(i) == Rat(i, 1)

RLt(a, b) == a.n * b.d < b.n * a.d

RLe(a, b) == a.n * b.d <= b.n * a.d

REq(a, b) == a.n * b.d = b.n * a.d

RSub(a, b) == Rat(a.n * b.d - b.n * a.d, a.d * b.d)

\* a / b for b > 0
RDiv(a, b) == Rat(a.n * b.d, a.d * b.n)

\* f32::round: to the nearest integer, halves away from zero
Round(r) ==
    IF r.n >= 0 THEN (2 * r.n + r.d) \div (2 * r.d)
    ELSE 0 - ((2 * (0 - r.n) + r.d) \div (2 * r.d))

\* i64::abs
Abs(i) == IF i < 0 THEN 0 - i ELSE i

Ok(v) == [ok |-> TRUE, val |-> v]

Panic(v) == [ok |-> FALSE, val |-> v]

(***************************************************************************)
(* maths.rs                                                                *)
(***************************************************************************)
\* clamp: assert!(min <= max), then saturate
clamp(value, min, max) ==
    IF ~RLe(min, max) THEN Panic(value)
    ELSE Ok(IF RLt(value, min) THEN min
            ELSE IF RLt(max, value) THEN max
            ELSE value)

\* a fault: the value is not clamped before the division
inverse_lerp_noclamp(value, min, max) ==
    IF ~RLt(min, max) THEN Panic(value)
    ELSE Ok(RDiv(RSub(value, min), RSub(max, min)))

\* inverse_lerp: assert!(min < max); (clamp(value) - min) / (max - min)
inverse_lerp(value, min, max) ==
    IF ~RLt(min, max) THEN Panic(value)
    ELSE LET clamped == clamp(value, min, max)
         IN  IF ~clamped.ok THEN Panic(value)
             ELSE Ok(RDiv(RSub(clamped.val, min), RSub(max, min)))

\* a fault: t is not clamped to [0, 1]
lerp_noclamp(t, min, max) ==
    Round(Rat(t.n * (max - min) + min * t.d, t.d))

\* lerp: round(clamp(t, 0, 1) * (max - min) + min); clamp(t, 0, 1) cannot panic
lerp(t, min, max) ==
    LET t01   == clamp(t, RInt(0), RInt(1)).val
        range == max - min
    IN  Round(Rat(t01.n * range + min * t01.d, t01.d))

(***************************************************************************)
(* tides/mod.rs: the data.                                                 *)
(*   TideHeightData   [dt, date, height]                                   *)
(*   TideExtremesData [dt, date]      (height and type are never read)     *)
(*   TideResponse     [heights, extremes]                                  *)
(*   TideModel        [water_mark, normalised_heights, dates, extremes]    *)
(*   TideModelWindow  [water_mark, normalised_heights, dates, extremes,    *)
(*                     start_index]                                        *)
(***************************************************************************)
Some(v) == [some |-> TRUE, val |-> v]

None == [some |-> FALSE, val |-> 0]

\* TideResponse::nil
nil == [heights |-> <<>>, extremes |-> <<>>]

\* find_abs_diff on u32
find_abs_diff(a, b) == IF a > b THEN a - b ELSE b - a

\* a fault: the element kept is replaced by a later one whose key is equal, so
\* that the last of several minima is returned
RECURSIVE min_by_key_last(_, _, _)
min_by_key_last(keys, lo, hi) ==
    IF lo >= hi THEN lo
    ELSE LET mid   == (lo + hi) \div 2
             left  == min_by_key_last(keys, lo, mid)
             right == min_by_key_last(keys, mid + 1, hi)
         IN  IF keys[left] >= keys[right] THEN right ELSE left

\* Iterator::min_by_key over enumerate(): a fold that replaces the element
\* kept only by a later one whose key is strictly smaller, so that the first
\* of several minima is returned. The fold is written over the halves of the
\* positions lo..hi of keys (the operation is associative), which keeps the
\* evaluation shallow on long series.
RECURSIVE min_by_key(_, _, _)
min_by_key(keys, lo, hi) ==
    IF lo >= hi THEN lo
    ELSE LET mid   == (lo + hi) \div 2
             left  == min_by_key(keys, lo, mid)
             right == min_by_key(keys, mid + 1, hi)
         IN  IF keys[left] > keys[right] THEN right ELSE left

\* the 0-based index min_by_key returns, None on an empty sequence
min_index(keys) ==
    IF Len(keys) = 0 THEN None ELSE Some(min_by_key(keys, 1, Len(keys)) - 1)

\* TideModel::get_water_mark: OrderedFloat max and min, 0 when empty
get_water_mark(heights) ==
    LET hs == {heights[i].height : i \in 1..Len(heights)}
    IN  [high_water |-> IF hs = {} THEN 0
                        ELSE CHOOSE m \in hs : \A h \in hs : h <= m,
         low_water  |-> IF hs = {} THEN 0
                        ELSE CHOOSE m \in hs : \A h \in hs : m <= h,
         current_water |-> 2]

\* the extremes loop of TideModel::new: one entry per extreme event for which
\* min_by_key finds a sample, in the order of the events
RECURSIVE map_extremes(_, _, _)
map_extremes(heights, extremes, k) ==
    IF k > Len(extremes) THEN <<>>
    ELSE LET option == min_index([i \in 1..Len(heights) |->
                           find_abs_diff(heights[i].dt, extremes[k].dt)])
             rest   == map_extremes(heights, extremes, k + 1)
         IN  IF option.some
             THEN <<[index |-> option.val, date |-> extremes[k].date]>> \o rest
             ELSE rest

\* TideModel::new; it panics when inverse_lerp's assertion fails
TideModel_new(data) ==
    LET water_mark == get_water_mark(data.heights)
        norm == [i \in 1..Len(data.heights) |->
                    inverse_lerp(RInt(data.heights[i].height),
                                 RInt(water_mark.low_water),
                                 RInt(water_mark.high_water))]
        model == [water_mark |-> water_mark,
                  normalised_heights |-> [i \in 1..Len(data.heights) |-> norm[i].val],
                  dates |-> [i \in 1..Len(data.heights) |-> data.heights[i].date],
                  extremes |-> map_extremes(data.heights, data.extremes, 1)]
    IN  IF \A i \in 1..Len(data.heights) : norm[i].ok THEN Ok(model) ELSE Panic(model)

\* TideModel::find_time_index: the sample closest to now, in whole seconds
find_time_index(dates, t) ==
    min_index([i \in 1..Len(dates) |-> Abs(t - dates[i])])

\* Duration::hours(8), in minutes
EightHours == 8 * 60

\* get_window's threshold: 107 columns of display and 5 frames
MinSamples == 112

\* a fault: a series with exactly MinSamples samples left counts as stale
get_window_le(model, t) ==
    LET start_utc == t - EightHours
        found == find_time_index(model.dates, start_utc)
        start == IF found.some THEN found.val ELSE 0
        n     == Len(model.normalised_heights)
    IN  [window |-> [water_mark |-> model.water_mark,
                     normalised_heights |-> SubSeq(model.normalised_heights, start + 1, n),
                     dates |-> SubSeq(model.dates, start + 1, Len(model.dates)),
                     extremes |-> model.extremes,
                     start_index |-> start],
         freshness |-> IF found.some /\ ~(n - start <= MinSamples)
                       THEN "Fresh" ELSE "NeedsUpdate"]

\* TideModel::get_window
get_window(model, t) ==
    LET start_utc == t - EightHours
        found == find_time_index(model.dates, start_utc)
        start == IF found.some THEN found.val ELSE 0
        n     == Len(model.normalised_heights)
    IN  [window |-> [water_mark |-> model.water_mark,
                     normalised_heights |-> SubSeq(model.normalised_heights, start + 1, n),
                     dates |-> SubSeq(model.dates, start + 1, Len(model.dates)),
                     extremes |-> model.extremes,
                     start_index |-> start],
         freshness |-> IF found.some /\ ~(n - start < MinSamples)
                       THEN "Fresh" ELSE "NeedsUpdate"]

\* TideModel::get_date_range
get_date_range(model) ==
    IF model.dates = <<>> THEN None
    ELSE Some(<<model.dates[1], model.dates[Len(model.dates)]>>)

\* TideModel::get_current_norm_height
get_current_norm_height(model, t) ==
    LET index == find_time_index(model.dates, t)
    IN  IF index.some /\ index.val + 1 <= Len(model.normalised_heights)
        THEN model.normalised_heights[index.val + 1]
        ELSE RInt(0 - 10)

\* TideModelWindow::extremes: the suffix of the model's extremes that starts
\* at the first one whose index is at or after start_index
RECURSIVE extremes_from(_, _, _)
extremes_from(extremes, start_index, k) ==
    IF k > Len(extremes) THEN <<>>
    ELSE IF extremes[k].index >= start_index THEN SubSeq(extremes, k, Len(extremes))
    ELSE extremes_from(extremes, start_index, k + 1)

window_extremes(w) == extremes_from(w.extremes, w.start_index, 1)

\* TideModelWindow::get_extreme_index_in_window: a u32 subtraction. With
\* overflow checks (a debug build) an underflow panics; without them it wraps,
\* and the wrapped u32 2^32 - k is written here as the negative number -k
\* (the two's complement reading of the same 32 bits).
get_extreme_index_in_window(w, extreme_index, checks) ==
    IF extreme_index >= w.start_index THEN Ok(extreme_index - w.start_index)
    ELSE IF checks THEN Panic(0)
    ELSE Ok(extreme_index - w.start_index)

\* a < b on u32, a wrapped value being written as a negative number
ULt(a, b) == IF a < 0 THEN b < 0 /\ a < b ELSE b < 0 \/ a < b

(***************************************************************************)
(* display.rs and font.rs.                                                 *)
(* A frame buffer is the set of its white pixels <<x, y>>; every other     *)
(* pixel of the 128 x 32 image is black. A pass of a painter is a function *)
(* from that set to [ok, white]: ok is FALSE when the pass panics, which   *)
(* RgbImage::put_pixel and get_pixel do outside the image.                 *)
(***************************************************************************)
SCREEN_WIDTH == 128

SCREEN_HEIGHT == 32

\* RgbImage::new(128, 32)
IMG_WIDTH == 128

IMG_HEIGHT == 32

FLOOD_FILL_MASK == <<0, 1, 0, 1, 1, 1, 1, 1, 1>>

\* the pixels of the 128 x 32 image
Image == (0..(IMG_WIDTH - 1)) \X (0..(IMG_HEIGHT - 1))

\* (x, y) is a pixel of the image; a wrapped u32 is not
InImage(x, y) == ULt(x, IMG_WIDTH) /\ ULt(y, IMG_HEIGHT)

\* a fault: the row of the height itself is left empty
calculate_pixel_above(normalized_heights, bounds, x, y) ==
    IF x < 0 \/ x >= Len(normalized_heights) THEN 1
    ELSE LET height    == normalized_heights[x + 1]
             px_height == lerp(height, 0, bounds.h)
             y_pos     == bounds.h - px_height
         IN  IF y > y_pos THEN 1 ELSE 0

\* calculate_pixel
calculate_pixel(normalized_heights, bounds, x, y) ==
    IF x < 0 \/ x >= Len(normalized_heights) THEN 1
    ELSE LET height    == normalized_heights[x + 1]
             px_height == lerp(height, 0, bounds.h)
             y_pos     == bounds.h - px_height
         IN  IF y >= y_pos THEN 1 ELSE 0

\* & and ^ on the bits 0 and 1
BitAnd(a, b) == a * b

BitXor(a, b) == (a + b) % 2

\* a fault: the sense of the test is inverted
should_erase_unless(kernel, mask) ==
    \E i \in 1..9 : BitXor(BitAnd(kernel[i], mask[i]), mask[i]) = 1

\* should_erase: false as soon as a position of the mask is missing in the kernel
should_erase(kernel, mask) ==
    \A i \in 1..9 : BitXor(BitAnd(kernel[i], mask[i]), mask[i]) # 1

\* the glyphs of a text: the digits 0..9 and the characters below
Colon == 10

Dot == 11

LetterM == 12

\* the glyphs of the splash texts: ' ', 'I', '!', 'M' and any other capital
Space == 13

CapitalI == 14

Bang == 15

CapitalM == 16

Capital == 17

\* font.rs: the width of a glyph's bitmap; every glyph used is 5 pixels high
GlyphWidth(ch) ==
    IF ch \in {1, Colon, Dot, CapitalI, Bang} THEN 1
    ELSE IF ch = Space THEN 2
    ELSE IF ch \in {LetterM, CapitalM} THEN 5
    ELSE 3

GlyphHeight == 5

\* format("%H:%M") of an instant; the local time zone is taken to be UTC
HourMinute(date) ==
    LET hh == (date \div 60) % 24
        mm == date % 60
    IN  <<hh \div 10, hh % 10, Colon, mm \div 10, mm % 10>>

\* TextField::set_text: bounds.w, every glyph followed by one column
RECURSIVE TextWidth(_)
TextWidth(text) ==
    IF Len(text) = 0 THEN 0
    ELSE GlyphWidth(Head(text)) + 1 + TextWidth(Tail(text))

\* TextField::paint: the pixels the glyphs of text cover with pos at (px, py).
\* imageops::overlay leaves out what falls outside the image.
RECURSIVE TextPixels(_, _, _)
TextPixels(text, px, py) ==
    IF Len(text) = 0 THEN {}
    ELSE {<<x, y>> \in (px..(px + GlyphWidth(Head(text)) - 1))
                        \X (py..(py + GlyphHeight - 1)) : InImage(x, y)}
         \cup TextPixels(Tail(text), px + GlyphWidth(Head(text)) + 1, py)

\* TextField::paint. The bitmaps of Font-5px.png are not part of the sources:
\* ink says whether the pixels of a glyph are white ("solid") or black ("blank").
TextField_paint(text, px, py, ink, white) ==
    IF ink = "solid" THEN white \cup TextPixels(text, px, py)
    ELSE white \ TextPixels(text, px, py)

\* format!("{:.1}m") of a water mark, which the model counts in tenths of a
\* metre; the font has no glyph for the sign, and a character without a glyph
\* is skipped
WaterText(mark) ==
    LET a == Abs(mark)
        whole == a \div 10
    IN  (IF whole >= 10 THEN <<whole \div 10, whole % 10>> ELSE <<whole>>)
        \o <<Dot, a % 10, LetterM>>

\* a fault: the mark is not moved aside on the rows of the caps
WaterMark_paint_nooffset(pos, bounds, model, t, white) ==
    LET y_pos  == lerp(get_current_norm_height(model, t),
                       pos.y + bounds.h - 1, pos.y)
        pixels == {<<pos.x, pos.y>>, <<pos.x, pos.y + bounds.h - 1>>}
                  \cup {<<pos.x + 1, pos.y + row>> : row \in 0..(bounds.h - 1)}
                  \cup {<<pos.x, y_pos>>}
    IN  [ok |-> \A p \in pixels : InImage(p[1], p[2]),
         white |-> white \cup pixels]

\* WaterMark::paint: the two notches, the bar and the mark. pos.x - 1 on u32
\* wraps or panics at pos.x = 0, and put_pixel panics on the wrapped column.
WaterMark_paint(pos, bounds, model, t, white) ==
    LET y_pos  == lerp(get_current_norm_height(model, t),
                       pos.y + bounds.h - 1, pos.y)
        mark_y == y_pos
        mark_x == IF mark_y = pos.y \/ mark_y = pos.y + bounds.h - 1
                  THEN pos.x - 1 ELSE pos.x
        pixels == {<<pos.x, pos.y>>, <<pos.x, pos.y + bounds.h - 1>>}
                  \cup {<<pos.x + 1, pos.y + row>> : row \in 0..(bounds.h - 1)}
                  \cup {<<mark_x, mark_y>>}
    IN  [ok |-> \A p \in pixels : InImage(p[1], p[2]),
         white |-> white \cup pixels]

\* the descender scan of ExtremeLabel::paint: the first row from the bottom of
\* the screen whose pixel in column x is black, 0 when there is none
RECURSIVE highest_from(_, _, _)
highest_from(white, x, y) ==
    IF y < 0 THEN 0
    ELSE IF <<x, y>> \notin white THEN y
    ELSE highest_from(white, x, y - 1)

\* ExtremeLabel::new and ExtremeLabel::paint for one extreme of the window
ExtremeLabel_paint(c, data_point, data_index, ink, white) ==
    LET text     == HourMinute(data_point.date)
        px       == c.x + data_index
        py       == 0
        w        == TextWidth(text)
        baseline == py + GlyphHeight + 2
        texted   == TextField_paint(text, px, py, ink, white)
        underline == {<<px + i, baseline>> : i \in 0..(w - 2)}
        lined    == texted \cup {p \in underline :
                        ULt(p[1], SCREEN_WIDTH) /\ ULt(p[2], SCREEN_HEIGHT)}
        scanned  == ULt(px, SCREEN_WIDTH)
        highest  == highest_from(lined, px, SCREEN_HEIGHT - 1)
        \* highest - 1 on u32: an underflow panics with overflow checks, and
        \* without them the range runs on to put_pixel(x, 32), which panics
        under    == scanned /\ highest = 0
        descender == IF scanned /\ ~under
                     THEN {<<px, y>> : y \in baseline..(highest - 2)} ELSE {}
    IN  [ok |-> ~under /\ \A p \in descender : InImage(p[1], p[2]),
         white |-> lined \cup descender,
         lined |-> lined,
         highest |-> IF scanned THEN highest ELSE 0]

\* the label loop of GraphCanvas::paint over the extremes of the window, from
\* extreme k on; checks says whether u32 arithmetic is checked (a debug build)
RECURSIVE paint_labels(_, _, _, _, _, _)
paint_labels(c, w, k, checks, ink, white) ==
    IF k > Len(window_extremes(w)) THEN [ok |-> TRUE, white |-> white]
    ELSE LET data_point == window_extremes(w)[k]
             data_index == get_extreme_index_in_window(w, data_point.index, checks)
             label == ExtremeLabel_paint(c, data_point, data_index.val, ink, white)
         IN  IF ~data_index.ok \/ ~label.ok THEN [ok |-> FALSE, white |-> white]
             ELSE paint_labels(c, w, k + 1, checks, ink, label.white)

\* the pixels of the graph region of canvas c
Region(c) == {<<c.x + col, c.y + row>> : col \in 0..(c.w - 1), row \in 0..(c.h - 1)}

\* GraphCanvas::paint, the waveform loop
paint_wave(c, w, white) ==
    LET filled == {<<c.x + col, c.y + row>> : <<col, row>> \in
                      {p \in (0..(c.w - 1)) \X (0..(c.h - 1)) :
                          calculate_pixel(w.normalised_heights, c, p[1], p[2]) = 1}}
    IN  [ok |-> \A p \in Region(c) : InImage(p[1], p[2]),
         white |-> (white \ Region(c)) \cup filled]

\* GraphCanvas::paint, the play head: current_index and the dashed line
current_index(w, t) ==
    LET found == find_time_index(w.dates, t)
    IN  IF found.some THEN found.val ELSE 0

\* a fault: the line ends with the graph region
paint_play_head_region(c, w, t, white) ==
    LET found == find_time_index(w.dates, t)
        x     == c.x + found.val
        drawn == found.some /\ ULt(x, SCREEN_WIDTH)
        line  == IF drawn THEN {<<x, y>> : y \in c.y..(c.y + c.h - 1)} ELSE {}
    IN  [ok |-> \A p \in line : InImage(p[1], p[2]),
         white |-> (white \ line) \cup {p \in line : p[2] % 2 = 0}]

paint_play_head(c, w, t, white) ==
    LET found == find_time_index(w.dates, t)
        x     == c.x + found.val
        drawn == found.some /\ ULt(x, SCREEN_WIDTH)
        line  == IF drawn THEN {<<x, y>> : y \in c.y..(SCREEN_HEIGHT - 1)} ELSE {}
    IN  [ok |-> \A p \in line : InImage(p[1], p[2]),
         white |-> (white \ line) \cup {p \in line : p[2] % 2 = 0}]

\* the 3 x 3 neighbourhood read by the erase loop at column x, row y
kernel_at(w, c, x, y) ==
    <<calculate_pixel(w.normalised_heights, c, x - 1, y - 1),
      calculate_pixel(w.normalised_heights, c, x, y - 1),
      calculate_pixel(w.normalised_heights, c, x + 1, y - 1),
      calculate_pixel(w.normalised_heights, c, x - 1, y),
      calculate_pixel(w.normalised_heights, c, x, y),
      calculate_pixel(w.normalised_heights, c, x + 1, y),
      calculate_pixel(w.normalised_heights, c, x - 1, y + 1),
      calculate_pixel(w.normalised_heights, c, x, y + 1),
      calculate_pixel(w.normalised_heights, c, x + 1, y + 1)>>

\* GraphCanvas::paint, the erase loop: the screen pixels it sets to black
erase_pixels(c, w, t) ==
    {<<c.x + col, c.y + row>> : <<col, row>> \in
        {p \in (0..(current_index(w, t) - 1)) \X (0..(c.h - 1)) :
            /\ should_erase(kernel_at(w, c, p[1], p[2]), FLOOD_FILL_MASK)
            /\ ~(c.x + p[1] >= SCREEN_WIDTH \/ c.y + p[2] >= SCREEN_HEIGHT)}}

\* a fault: the erase loop runs through the column of the play head
paint_erase_through(c, w, t, white) ==
    LET erased == {<<c.x + col, c.y + row>> : <<col, row>> \in
                      {p \in (0..current_index(w, t)) \X (0..(c.h - 1)) :
                          /\ should_erase(kernel_at(w, c, p[1], p[2]), FLOOD_FILL_MASK)
                          /\ ~(c.x + p[1] >= SCREEN_WIDTH \/ c.y + p[2] >= SCREEN_HEIGHT)}}
    IN  [ok |-> \A p \in erased : InImage(p[1], p[2]),
         white |-> white \ erased]

paint_erase(c, w, t, white) ==
    LET erased == erase_pixels(c, w, t)
    IN  [ok |-> \A p \in erased : InImage(p[1], p[2]),
         white |-> white \ erased]

(***************************************************************************)
(* The inputs the checks range over.                                       *)
(***************************************************************************)
\* settings.step of a short series and of a long one, in minutes
ShortStep == 4 * 60

LongStep == 1 * 60

\* raw heights of a short series
RawHeights == {0, 1, 2}

\* the samples of the API at a regular step: sample i is taken at i * step
Series(hs, step) ==
    [i \in 1..Len(hs) |->
        [dt |-> (i - 1) * step, date |-> (i - 1) * step, height |-> hs[i]]]

ShortSeries ==
    UNION {{Series(hs, ShortStep) : hs \in [1..n -> RawHeights]} : n \in 0..MaxShort}

\* a long series follows a triangle wave of period 12 and amplitude 6
Wave(i) == LET m == i % 12 IN IF m <= 6 THEN m ELSE 12 - m

LongSeries ==
    {Series([i \in 1..n |-> Wave(i + ph)], LongStep) :
        n \in (LongLen - 2)..LongLen, ph \in {0, 3}}

\* the instants of extreme events: on a sample, midway between two samples of
\* a short series, and later
ExtTimes == {0, ShortStep \div 2, 2 * ShortStep + LongStep}

Event(t) == [dt |-> t, date |-> t]

\* the extremes of a response, in any order
ExtremeLists == UNION {[1..n -> {Event(t) : t \in ExtTimes}] : n \in 0..MaxExt}

ShortResponses ==
    {[heights |-> h, extremes |-> e] : h \in ShortSeries, e \in ExtremeLists}

LongResponses ==
    {[heights |-> h, extremes |-> e] : h \in LongSeries, e \in ExtremeLists}

\* the instants at which the clock is read
NowTimes == {k * (ShortStep \div 2) : k \in 0..MaxNowTick}

\* values a variable holds while the specification at hand does not use it
NoModel == [water_mark |-> [high_water |-> 0, low_water |-> 0, current_water |-> 2],
            normalised_heights |-> <<>>, dates |-> <<>>, extremes |-> <<>>]

NoWindow == [water_mark |-> NoModel.water_mark, normalised_heights |-> <<>>,
             dates |-> <<>>, extremes |-> <<>>, start_index |-> 0]

NoCanvas == [x |-> 0, y |-> 0, w |-> 0, h |-> 0, ink |-> "blank"]

\* RgbImage::new: every pixel black
NoImg == {}

\* trace: the image before the erase loop and the pixels that loop wrote; the
\* arm of main's match that painted last and the freshness of the window it
\* painted; the cause of a panic or of an exit; the buffer of a label after its
\* underline and the row its scan found; the calls of load_tides_from_api
\* made since the Fresh arm last ran
NoTrace == [before |-> {}, erased |-> {}, arm |-> "none", painted |-> "None",
            cause |-> "none", lined |-> {}, highest |-> 0, calls |-> 0]

(***************************************************************************)
(* SpecMaths: the functions of maths.rs applied to bounded arguments.      *)
(***************************************************************************)
Raws == (0 - MaxRaw)..MaxRaw

\* f32 arguments of lerp and clamp: quarters from -1 to 2, and the sentinel -10
Fractions == {Rat(n, 4) : n \in (0 - 4)..8} \cup {RInt(0 - 10)}

MathsArgs ==
    {<<"inverse_lerp", RInt(v), RInt(lo), RInt(hi)>> : v \in Raws, lo \in Raws, hi \in Raws}
    \cup {<<"clamp", t, RInt(lo), RInt(hi)>> : t \in Fractions, lo \in {0, 1}, hi \in {0, 1}}
    \cup {<<"lerp", t, lo, hi>> : t \in Fractions, lo \in {0, 21, 31}, hi \in {0, 10, 22}}

InitMaths ==
    /\ pc = "call"
    /\ args \in MathsArgs
    /\ ret = <<>>
    /\ tide_data = nil
    /\ tide_model = NoModel
    /\ now = 0
    /\ window = NoWindow
    /\ freshness = "None"
    /\ retries = 0
    /\ canvas = NoCanvas
    /\ img = NoImg
    /\ trace = NoTrace

CallInverseLerp ==
    /\ pc = "call"
    /\ args[1] = "inverse_lerp"
    /\ ret' = inverse_lerp(args[2], args[3], args[4])
    /\ pc' = "returned"
    /\ UNCHANGED <<args, tide_data, tide_model, now, window, freshness, retries,
                   canvas, img, trace>>

CallClamp ==
    /\ pc = "call"
    /\ args[1] = "clamp"
    /\ ret' = clamp(args[2], args[3], args[4])
    /\ pc' = "returned"
    /\ UNCHANGED <<args, tide_data, tide_model, now, window, freshness, retries,
                   canvas, img, trace>>

CallLerp ==
    /\ pc = "call"
    /\ args[1] = "lerp"
    /\ ret' = Ok(lerp(args[2], args[3], args[4]))
    /\ pc' = "returned"
    /\ UNCHANGED <<args, tide_data, tide_model, now, window, freshness, retries,
                   canvas, img, trace>>

NextMaths == CallInverseLerp \/ CallClamp \/ CallLerp

SpecMaths == InitMaths /\ [][NextMaths]_vars

(***************************************************************************)
(* SpecPixel: calculate_pixel and should_erase of display.rs applied to    *)
(* bounded arguments.                                                      *)
(***************************************************************************)
\* the longest series of normalised heights drawn freely
MaxCols == 2

\* normalised heights: the quarters of [0, 1]
UnitQuarters == {Rat(n, 4) : n \in 0..4}

\* the series of test_calculate_pixel, as normalised heights
QuarterRamp == <<Rat(1, 4), Rat(2, 4), Rat(3, 4), Rat(4, 4)>>

PixelHeights ==
    UNION {[1..n -> UnitQuarters] : n \in 0..MaxCols} \cup {QuarterRamp}

\* the kernels of the erase loop: nine bits
Kernels == [1..9 -> {0, 1}]

\* columns and rows run one step past the series and the region, as the
\* kernel of the erase loop reads them
PixelArgs ==
    {<<"calculate_pixel", hs, [w |-> 4, h |-> h], x, y>> :
        hs \in PixelHeights, h \in {4, 5}, x \in (0 - 1)..5, y \in (0 - 1)..6}
    \cup {<<"should_erase", k, FLOOD_FILL_MASK>> : k \in Kernels}

InitPixel ==
    /\ pc = "call"
    /\ args \in PixelArgs
    /\ ret = <<>>
    /\ tide_data = nil
    /\ tide_model = NoModel
    /\ now = 0
    /\ window = NoWindow
    /\ freshness = "None"
    /\ retries = 0
    /\ canvas = NoCanvas
    /\ img = NoImg
    /\ trace = NoTrace

CallCalculatePixel ==
    /\ pc = "call"
    /\ args[1] = "calculate_pixel"
    /\ ret' = calculate_pixel(args[2], args[3], args[4], args[5])
    /\ pc' = "returned"
    /\ UNCHANGED <<args, tide_data, tide_model, now, window, freshness, retries,
                   canvas, img, trace>>

CallShouldErase ==
    /\ pc = "call"
    /\ args[1] = "should_erase"
    /\ ret' = should_erase(args[2], args[3])
    /\ pc' = "returned"
    /\ UNCHANGED <<args, tide_data, tide_model, now, window, freshness, retries,
                   canvas, img, trace>>

NextPixel == CallCalculatePixel \/ CallShouldErase

SpecPixel == InitPixel /\ [][NextPixel]_vars

(***************************************************************************)
(* SpecLabel: ExtremeLabel::new and ExtremeLabel::paint applied to one     *)
(* extreme, on buffers that hold a waveform.                               *)
(***************************************************************************)
\* a buffer whose columns are white from row top down to the bottom row, as
\* the wave pass leaves a column; top = 32 is a black buffer
WaveBuffer(top) == {p \in Image : p[2] >= top}

\* the rows at which the waveform starts, and a waveform with a black row in it
LabelBuffers ==
    {WaveBuffer(top) : top \in {0, 1, 5, 6, 7, 8, 9, 10, 11, 20, 31, 32}}
    \cup {WaveBuffer(10) \ {p \in Image : p[2] = 20}}

\* graph regions at the place of the program and at the right edge
LabelCanvases ==
    {[x |-> x, y |-> 10, w |-> 107, h |-> 22, ink |-> ink] :
        x \in {21, 120}, ink \in {"solid", "blank"}}

\* an extreme at 00:00 or at 10:15, at column 0, 5 or 8 of the window
LabelArgs ==
    {<<[index |-> i, date |-> d], i>> : i \in {0, 5, 8}, d \in {0, 10 * 60 + 15}}

InitLabel ==
    /\ pc = "call"
    /\ args \in LabelArgs
    /\ ret = <<>>
    /\ tide_data = nil
    /\ tide_model = NoModel
    /\ now = 0
    /\ window = NoWindow
    /\ freshness = "None"
    /\ retries = 0
    /\ canvas \in LabelCanvases
    /\ img \in LabelBuffers
    /\ trace = NoTrace

\* ExtremeLabel::new(font, data_point, data_index, pos) and label.paint(buffer)
PaintLabel ==
    /\ pc = "call"
    /\ \E r \in {ExtremeLabel_paint(canvas, args[1], args[2], canvas.ink, img)} :
           /\ trace' = [trace EXCEPT !.before = img, !.lined = r.lined,
                                     !.highest = r.highest]
           /\ IF r.ok THEN img' = r.white /\ pc' = "returned"
              ELSE img' = img /\ pc' = "panicked"
    /\ UNCHANGED <<args, ret, tide_data, tide_model, now, window, freshness,
                   retries, canvas>>

NextLabel == PaintLabel

SpecLabel == InitLabel /\ [][NextLabel]_vars

(***************************************************************************)
(* SpecModel: TideModel::new, get_window and the queries, applied to the   *)
(* responses above.                                                        *)
(***************************************************************************)
InitModel ==
    /\ pc = "new"
    /\ args = <<>>
    /\ ret = <<>>
    /\ tide_data \in ShortResponses \cup LongResponses
    /\ tide_model = NoModel
    /\ now \in NowTimes
    /\ window = NoWindow
    /\ freshness = "None"
    /\ retries = 0
    /\ canvas = NoCanvas
    /\ img = NoImg
    /\ trace = NoTrace

\* TideModel::new(tide_data)
New ==
    /\ pc = "new"
    /\ LET built == TideModel_new(tide_data)
       IN  IF built.ok
           THEN tide_model' = built.val /\ pc' = "built"
           ELSE tide_model' = NoModel /\ pc' = "panicked"
    /\ UNCHANGED <<args, ret, tide_data, now, window, freshness, retries,
                   canvas, img, trace>>

\* tide_model.get_window(now)
GetWindow ==
    /\ pc = "built"
    /\ LET got == get_window(tide_model, now)
       IN  window' = got.window /\ freshness' = got.freshness
    /\ pc' = "windowed"
    /\ UNCHANGED <<args, ret, tide_data, tide_model, now, retries, canvas, img, trace>>

NextModel == New \/ GetWindow

SpecModel == InitModel /\ [][NextModel]_vars

(***************************************************************************)
(* SpecPaint: GraphCanvas::paint, pass by pass, on short series and small  *)
(* graph regions of the 128 x 32 image.                                    *)
(***************************************************************************)
\* graph regions: over the label rows, in the middle, and at the right edge
PaintCanvases ==
    {[x |-> 1, y |-> 0, w |-> 3, h |-> 4, ink |-> "solid"],
     [x |-> 2, y |-> 10, w |-> 4, h |-> 5, ink |-> "blank"],
     [x |-> 127, y |-> 28, w |-> 1, h |-> 4, ink |-> "solid"]}

\* the extremes of a painted series: none, one, and two out of time order
PaintExtremes == {<<>>, <<Event(ShortStep \div 2)>>, <<Event(2 * ShortStep + LongStep), Event(0)>>}

PaintResponses ==
    {[heights |-> h, extremes |-> e] : h \in ShortSeries, e \in PaintExtremes}

\* the clock is read on the second, the third and the fourth sample
PaintTimes == {ShortStep, 2 * ShortStep, 3 * ShortStep}

InitPaint ==
    /\ pc = "new"
    /\ args = <<>>
    /\ ret = <<>>
    /\ tide_data \in PaintResponses
    /\ tide_model = NoModel
    /\ now \in PaintTimes
    /\ window = NoWindow
    /\ freshness = "None"
    /\ retries = 0
    /\ canvas \in PaintCanvases
    /\ img = NoImg
    /\ trace = NoTrace

\* the waveform loop, entered from position from
PaintWave(from) ==
    /\ pc = from
    /\ \E r \in {paint_wave(canvas, window, img)} :
           IF r.ok THEN img' = r.white /\ pc' = "wave"
           ELSE img' = img /\ pc' = "panicked"
    /\ UNCHANGED <<args, ret, tide_data, tide_model, now, window, freshness,
                   retries, canvas, trace>>

\* the label loop; the build decides whether u32 arithmetic is checked
PaintLabels ==
    /\ pc = "wave"
    /\ \E checks \in BOOLEAN :
          \E r \in {paint_labels(canvas, window, 1, checks, canvas.ink, img)} :
              IF r.ok THEN img' = r.white /\ pc' = "labels"
              ELSE img' = img /\ pc' = "panicked"
    /\ UNCHANGED <<args, ret, tide_data, tide_model, now, window, freshness,
                   retries, canvas, trace>>

\* the play head
PaintPlayHead ==
    /\ pc = "labels"
    /\ \E r \in {paint_play_head(canvas, window, now, img)} :
           IF r.ok THEN img' = r.white /\ pc' = "head"
           ELSE img' = img /\ pc' = "panicked"
    /\ UNCHANGED <<args, ret, tide_data, tide_model, now, window, freshness,
                   retries, canvas, trace>>

\* the erase loop; trace records the image before it and the pixels it wrote
PaintErase ==
    /\ pc = "head"
    /\ \E r \in {paint_erase(canvas, window, now, img)} :
           IF r.ok
           THEN /\ img' = r.white
                /\ trace' = [trace EXCEPT !.before = img,
                                          !.erased = erase_pixels(canvas, window, now)]
                /\ pc' = "painted"
           ELSE img' = img /\ trace' = trace /\ pc' = "panicked"
    /\ UNCHANGED <<args, ret, tide_data, tide_model, now, window, freshness,
                   retries, canvas>>

NextPaint ==
    \/ New
    \/ GetWindow
    \/ PaintWave("windowed")
    \/ PaintLabels
    \/ PaintPlayHead
    \/ PaintErase

SpecPaint == InitPaint /\ [][NextPaint]_vars

(***************************************************************************)
(* SpecFrame: paint() of main.rs, pass by pass, with the layout of the     *)
(* program, on empty, short and long series.                               *)
(***************************************************************************)
\* GraphCanvas::new(21, 10, 107, 22, ..)
GraphLayout(ink) == [x |-> 21, y |-> 10, w |-> 107, h |-> 22, ink |-> ink]

\* WaterMark::new(17, 10, 2, 22, ..)
GaugePos == [x |-> 17, y |-> 10]

GaugeBounds == [w |-> 2, h |-> 22]

\* a response without samples lists any extremes
EmptyResponses == {[heights |-> <<>>, extremes |-> e] : e \in ExtremeLists}

\* two short series, which leave most columns of the graph without a sample
FrameShortSeries == {Series(<<0, 2>>, ShortStep), Series(<<1, 0, 2>>, ShortStep)}

FrameResponses ==
    EmptyResponses
    \cup {[heights |-> h, extremes |-> e] :
             h \in FrameShortSeries \cup LongSeries, e \in PaintExtremes}

InitFrame ==
    /\ pc = "new"
    /\ args = <<>>
    /\ ret = <<>>
    /\ tide_data \in FrameResponses
    /\ tide_model = NoModel
    /\ now \in PaintTimes
    /\ window = NoWindow
    /\ freshness = "None"
    /\ retries = 0
    /\ canvas \in {GraphLayout("solid"), GraphLayout("blank")}
    /\ img = NoImg
    /\ trace = NoTrace

\* paint(): a new image, and the clock and the two water marks as text. The
\* clock is read on a whole minute, an even second, so the format is "%H:%M".
paint_texts(w, t, ink) ==
    TextField_paint(WaterText(w.water_mark.low_water), 0, 27, ink,
        TextField_paint(WaterText(w.water_mark.high_water), 0, 8, ink,
            TextField_paint(HourMinute(t), 0, 0, ink, NoImg)))

FrameTexts ==
    /\ pc = "windowed"
    /\ img' = paint_texts(window, now, canvas.ink)
    /\ pc' = "texts"
    /\ UNCHANGED <<args, ret, tide_data, tide_model, now, window, freshness,
                   retries, canvas, trace>>

\* paint(): water_mark.paint
FrameWaterMark ==
    /\ pc = "texts"
    /\ \E r \in {WaterMark_paint(GaugePos, GaugeBounds, tide_model, now, img)} :
           IF r.ok THEN img' = r.white /\ pc' = "marked"
           ELSE img' = img /\ pc' = "panicked"
    /\ UNCHANGED <<args, ret, tide_data, tide_model, now, window, freshness,
                   retries, canvas, trace>>

\* paint(): render_device.render(&img); ret is the frame handed to the device
Render ==
    /\ pc = "painted"
    /\ ret' = img
    /\ pc' = "rendered"
    /\ UNCHANGED <<args, tide_data, tide_model, now, window, freshness,
                   retries, canvas, img, trace>>

NextFrame ==
    \/ New
    \/ GetWindow
    \/ FrameTexts
    \/ FrameWaterMark
    \/ PaintWave("marked")
    \/ PaintLabels
    \/ PaintPlayHead
    \/ PaintErase
    \/ Render

SpecFrame == InitFrame /\ [][NextFrame]_vars

(***************************************************************************)
(* Spec: main() of main.rs. pc is the position of the program:             *)
(*   "start"      before the tide data is read from disk                   *)
(*   "range"      before the date range of the model from disk is printed  *)
(*   "splash"     before the two splash screens                            *)
(*   "loop"       at the head of the loop                                  *)
(*   "fresh"      in the Fresh arm of the match, "stale" in the other      *)
(*   "api"        before load_tides_from_api                               *)
(*   "loaded"     before the date range of the rebuilt model is printed    *)
(*   "refreshed"  before the window of the rebuilt model is painted        *)
(*   "sleep"      at the sleep that ends an iteration                      *)
(*   "panicked"   after a panic, "exited" after main has returned an Err   *)
(***************************************************************************)

MAX_RETRIES == 3

\* "HELLO TIM!"
Hello ==
    <<Capital, Capital, Capital, Capital, Capital, Space,
      Capital, CapitalI, CapitalM, Bang>>

\* "YOU LOOK MAGNIFICENT TODAY"
Magnificent ==
    <<Capital, Capital, Capital, Space,
      Capital, Capital, Capital, Capital, Space,
      CapitalM, Capital, Capital, Capital, CapitalI, Capital, CapitalI,
      Capital, Capital, Capital, Capital, Space,
      Capital, Capital, Capital, Capital, Capital>>

\* render(): the text centred on row 13 of a new back buffer
render(text, ink) ==
    LET caret == 128 \div 2 - TextWidth(text) \div 2
    IN  IF ink = "solid" THEN TextPixels(text, caret, 13) ELSE NoImg

\* paint(): the texts, the water mark and the graph on a new image
paint(model, w, t, checks, ink) ==
    LET c        == GraphLayout(ink)
        marked   == {WaterMark_paint(GaugePos, GaugeBounds, model, t,
                                     paint_texts(w, t, ink))}
        waved    == {IF r.ok THEN paint_wave(c, w, r.white) ELSE r : r \in marked}
        labelled == {IF r.ok THEN paint_labels(c, w, 1, checks, ink, r.white) ELSE r :
                        r \in waved}
        headed   == {IF r.ok THEN paint_play_head(c, w, t, r.white) ELSE r :
                        r \in labelled}
        erased   == {IF r.ok THEN paint_erase(c, w, t, r.white) ELSE r : r \in headed}
    IN  CHOOSE r \in erased : TRUE

\* the series on disk and the series the API answers with: none, one sample,
\* two samples, and a long series
MainSeries ==
    {<<>>, Series(<<1>>, ShortStep), Series(<<0, 2>>, ShortStep),
     Series([i \in 1..(LongLen - 2) |-> Wave(i)], LongStep)}

\* their extremes: none, and two out of time order
MainExtremes == {<<>>, <<Event(2 * ShortStep + LongStep), Event(0)>>}

MainResponses ==
    {[heights |-> h, extremes |-> e] : h \in MainSeries, e \in MainExtremes}

\* TideResponse::new: a missing or malformed resources/tides.json gives nil
DiskResponses == {nil} \cup MainResponses

\* the clock: on the fifth sample of the long series, whose window is Fresh
\* there, and on the eleventh, where it is not
MainTimes == {ShortStep, 2 * ShortStep + 2 * LongStep}

Init ==
    /\ pc = "start"
    /\ args = <<>>
    /\ ret = <<>>
    /\ tide_data = nil
    /\ tide_model = NoModel
    /\ now = 0
    /\ window = NoWindow
    /\ freshness = "None"
    /\ retries = 0
    /\ canvas = GraphLayout("solid")
    /\ img = NoImg
    /\ trace = NoTrace

\* TideResponse::new() and TideModel::new(tide_data)
LoadDisk ==
    /\ pc = "start"
    /\ \E disk \in DiskResponses :
          /\ tide_data' = disk
          /\ LET built == TideModel_new(disk)
             IN  IF built.ok
                 THEN tide_model' = built.val /\ pc' = "range" /\ trace' = trace
                 ELSE /\ tide_model' = tide_model /\ pc' = "panicked"
                      /\ trace' = [trace EXCEPT !.cause = "assert"]
    /\ UNCHANGED <<args, ret, now, window, freshness, retries, canvas, img>>

\* tide_model.get_date_range().unwrap(), on the model from disk
DiskRange ==
    /\ pc = "range"
    /\ IF get_date_range(tide_model).some
       THEN pc' = "splash" /\ trace' = trace
       ELSE pc' = "panicked" /\ trace' = [trace EXCEPT !.cause = "unwrap"]
    /\ UNCHANGED <<args, ret, tide_data, tide_model, now, window, freshness,
                   retries, canvas, img>>

\* render("HELLO TIM!") on a new back buffer, shown for four seconds
SplashHello ==
    /\ pc = "splash"
    /\ img' = render(Hello, canvas.ink)
    /\ pc' = "splash2"
    /\ UNCHANGED <<args, ret, tide_data, tide_model, now, window, freshness,
                   retries, canvas, trace>>

\* render("YOU LOOK MAGNIFICENT TODAY") on a new back buffer; retries = 0
SplashMagnificent ==
    /\ pc = "splash2"
    /\ img' = render(Magnificent, canvas.ink)
    /\ retries' = 0
    /\ pc' = "loop"
    /\ UNCHANGED <<args, ret, tide_data, tide_model, now, window, freshness,
                   canvas, trace>>

\* the head of the loop: the clock, which does not run backwards, is read and
\* the window on it is taken
Iterate ==
    /\ pc = "loop"
    /\ \E t \in MainTimes :
          /\ t >= now
          /\ now' = t
          /\ LET got == get_window(tide_model, t)
             IN  /\ window' = got.window
                 /\ freshness' = got.freshness
                 /\ pc' = IF got.freshness = "Fresh" THEN "fresh" ELSE "stale"
    /\ UNCHANGED <<args, ret, tide_data, tide_model, retries, canvas, img, trace>>

\* a fault: the Fresh arm paints and leaves retries as it was
FreshArm_noreset ==
    /\ pc = "fresh"
    /\ retries' = retries
    /\ \E checks \in BOOLEAN :
          \E r \in {paint(tide_model, window, now, checks, canvas.ink)} :
              IF r.ok
              THEN /\ img' = r.white
                   /\ trace' = [trace EXCEPT !.arm = "Fresh", !.painted = freshness,
                                             !.calls = 0]
                   /\ pc' = "sleep"
              ELSE /\ img' = img
                   /\ trace' = [trace EXCEPT !.cause = "paint", !.calls = 0]
                   /\ pc' = "panicked"
    /\ UNCHANGED <<args, ret, tide_data, tide_model, now, window, freshness, canvas>>

\* the Fresh arm: retries = 0 and the window is painted
FreshArm ==
    /\ pc = "fresh"
    /\ retries' = 0
    /\ \E checks \in BOOLEAN :
          \E r \in {paint(tide_model, window, now, checks, canvas.ink)} :
              IF r.ok
              THEN /\ img' = r.white
                   /\ trace' = [trace EXCEPT !.arm = "Fresh", !.painted = freshness,
                                             !.calls = 0]
                   /\ pc' = "sleep"
              ELSE /\ img' = img
                   /\ trace' = [trace EXCEPT !.cause = "paint", !.calls = 0]
                   /\ pc' = "panicked"
    /\ UNCHANGED <<args, ret, tide_data, tide_model, now, window, freshness, canvas>>

\* a fault: the NeedsUpdate arm paints the window it was entered with and
\* does not call the API
StaleArm_norefresh ==
    /\ pc = "stale"
    /\ retries' = retries + 1
    /\ \E checks \in BOOLEAN :
          \E r \in {paint(tide_model, window, now, checks, canvas.ink)} :
              IF r.ok
              THEN /\ img' = r.white
                   /\ trace' = [trace EXCEPT !.arm = "NeedsUpdate",
                                             !.painted = freshness]
                   /\ pc' = "sleep"
              ELSE /\ img' = img
                   /\ trace' = [trace EXCEPT !.cause = "paint"]
                   /\ pc' = "panicked"
    /\ UNCHANGED <<args, ret, tide_data, tide_model, now, window, freshness, canvas>>

\* the NeedsUpdate arm up to the call of the API: retries += 1, and a panic
\* past MAX_RETRIES
StaleArm ==
    /\ pc = "stale"
    /\ retries' = retries + 1
    /\ IF retries + 1 > MAX_RETRIES
       THEN pc' = "panicked" /\ trace' = [trace EXCEPT !.cause = "retries"]
       ELSE pc' = "api" /\ trace' = trace
    /\ UNCHANGED <<args, ret, tide_data, tide_model, now, window, freshness,
                   canvas, img>>

\* load_tides_from_api()? and TideModel::new(response): an Err of the loader
\* is returned from main
LoadApi ==
    /\ pc = "api"
    /\ \/ /\ pc' = "exited"
          /\ trace' = [trace EXCEPT !.cause = "api", !.calls = @ + 1]
          /\ UNCHANGED <<tide_data, tide_model>>
       \/ \E response \in MainResponses :
             /\ tide_data' = response
             /\ LET built == TideModel_new(response)
                IN  IF built.ok
                    THEN /\ tide_model' = built.val /\ pc' = "loaded"
                         /\ trace' = [trace EXCEPT !.calls = @ + 1]
                    ELSE /\ tide_model' = tide_model /\ pc' = "panicked"
                         /\ trace' = [trace EXCEPT !.cause = "assert", !.calls = @ + 1]
    /\ UNCHANGED <<args, ret, now, window, freshness, retries, canvas, img>>

\* tide_model.get_date_range().unwrap(), on the rebuilt model
ApiRange ==
    /\ pc = "loaded"
    /\ IF get_date_range(tide_model).some
       THEN pc' = "refreshed" /\ trace' = trace
       ELSE pc' = "panicked" /\ trace' = [trace EXCEPT !.cause = "unwrap"]
    /\ UNCHANGED <<args, ret, tide_data, tide_model, now, window, freshness,
                   retries, canvas, img>>

\* the window of the rebuilt model is taken, its freshness is dropped
\* (_is_data_fresh) and it is painted; freshness keeps the value the match
\* was made on
RefreshedPaint ==
    /\ pc = "refreshed"
    /\ LET got == get_window(tide_model, now)
       IN  /\ window' = got.window
           /\ \E checks \in BOOLEAN :
                 \E r \in {paint(tide_model, got.window, now, checks, canvas.ink)} :
                     IF r.ok
                     THEN /\ img' = r.white
                          /\ trace' = [trace EXCEPT !.arm = "NeedsUpdate",
                                                    !.painted = got.freshness]
                          /\ pc' = "sleep"
                     ELSE /\ img' = img
                          /\ trace' = [trace EXCEPT !.cause = "paint"]
                          /\ pc' = "panicked"
    /\ UNCHANGED <<args, ret, tide_data, tide_model, now, freshness, retries, canvas>>

\* thread::sleep of one second
Sleep ==
    /\ pc = "sleep"
    /\ pc' = "loop"
    /\ UNCHANGED <<args, ret, tide_data, tide_model, now, window, freshness,
                   retries, canvas, img, trace>>

Next ==
    \/ LoadDisk
    \/ DiskRange
    \/ SplashHello
    \/ SplashMagnificent
    \/ Iterate
    \/ FreshArm
    \/ StaleArm
    \/ LoadApi
    \/ ApiRange
    \/ RefreshedPaint
    \/ Sleep

Spec == Init /\ [][Next]_vars

(***************************************************************************)
(* Properties of maths.rs and of the tide model.                           *)
(***************************************************************************)
\* position i of dates holds an instant nearest to t, and no earlier position does
Nearest(dates, t, i) ==
    /\ i \in 1..Len(dates)
    /\ \A j \in 1..Len(dates) :
          /\ Abs(dates[i] - t) <= Abs(dates[j] - t)
          /\ j < i => Abs(dates[i] - t) < Abs(dates[j] - t)

InUnit(r) == RLe(RInt(0), r) /\ RLe(r, RInt(1))

\* what C8 says of a call inverse_lerp(value, lo, hi) that has returned ret
InverseLerpContract(value, lo, hi, r) ==
    /\ r.ok
    /\ InUnit(r.val)
    /\ RLe(value, lo) => REq(r.val, RInt(0))
    /\ RLe(hi, value) => REq(r.val, RInt(1))

\* C8 as claimed: for all heights h and marks lo <= hi, lo = hi included,
\* inverse_lerp(h, lo, hi) returns a value in [0,1] without failing, 0 at lo,
\* 1 at hi, and saturated outside [lo, hi].
C8_InverseLerpClosedMarks ==
    (pc = "returned" /\ args[1] = "inverse_lerp" /\ RLe(args[3], args[4]))
        => InverseLerpContract(args[2], args[3], args[4], ret)

\* C8 as amended: for all heights h and marks lo < hi, inverse_lerp(h, lo, hi)
\* returns a value in [0,1] without failing, 0 at lo, 1 at hi, and saturated
\* to 0 or 1 outside [lo, hi]; with lo = hi the call fails its assertion.
C8_InverseLerpStrictMarks ==
    (pc = "returned" /\ args[1] = "inverse_lerp") =>
        /\ RLt(args[3], args[4]) => InverseLerpContract(args[2], args[3], args[4], ret)
        /\ REq(args[3], args[4]) => ~ret.ok

\* a height above the high mark has been normalised to 1
C8_Witness ==
    /\ pc = "returned"
    /\ args[1] = "inverse_lerp"
    /\ RLt(args[3], args[4])
    /\ RLt(args[4], args[2])
    /\ ret.ok
    /\ REq(ret.val, RInt(1))

\* C2: get_window(now) starts the window at the sample nearest to now - 8h
\* and returns NeedsUpdate when the series is empty or fewer than 112 samples
\* remain from there to its end, and Fresh when 112 or more remain.
C2_FreshnessThreshold ==
    pc = "windowed" =>
        LET n == Len(tide_model.normalised_heights)
            left == n - window.start_index
        IN  /\ n = 0 => freshness = "NeedsUpdate"
            /\ n > 0 => /\ Nearest(tide_model.dates, now - 480, window.start_index + 1)
                        /\ left < 112 => freshness = "NeedsUpdate"
                        /\ left >= 112 => freshness = "Fresh"

\* a window that starts inside the series with exactly 112 samples left is Fresh
C2_Witness ==
    /\ pc = "windowed"
    /\ window.start_index > 0
    /\ Len(tide_model.normalised_heights) - window.start_index = 112
    /\ freshness = "Fresh"

\* C4 as claimed: the window returned by get_window has start_index + len(window)
\* = len(model) for the heights and for the dates, and every extreme returned by
\* window.extremes() has index >= start_index.
C4_WindowExtremesFromStart ==
    pc = "windowed" =>
        /\ window.start_index + Len(window.normalised_heights)
              = Len(tide_model.normalised_heights)
        /\ window.start_index + Len(window.dates) = Len(tide_model.dates)
        /\ \A k \in 1..Len(window_extremes(window)) :
              window_extremes(window)[k].index >= window.start_index

\* C9 as claimed: for every non-empty sample list TideModel::new completes, with
\* low_water <= high_water, heights and dates aligned with the samples, and every
\* normalised height in [0,1].
C9_NewOnAnySamples ==
    (pc # "new" /\ Len(tide_data.heights) > 0) =>
        /\ pc # "panicked"
        /\ tide_model.water_mark.low_water <= tide_model.water_mark.high_water
        /\ Len(tide_model.normalised_heights) = Len(tide_data.heights)
        /\ Len(tide_model.dates) = Len(tide_data.heights)
        /\ \A i \in 1..Len(tide_data.heights) :
              /\ tide_model.dates[i] = tide_data.heights[i].date
              /\ InUnit(tide_model.normalised_heights[i])

\* C10: TideModel::new maps each extreme event to the index of the sample
\* nearest in time, the earliest on a tie; every index stored is an index of
\* the series; no extreme is stored when there is no sample.
C10_ExtremesNearestSample ==
    pc \in {"built", "windowed"} =>
        LET hs == tide_data.heights
            ex == tide_model.extremes
        IN  /\ Len(hs) = 0 => Len(ex) = 0
            /\ Len(hs) > 0 => Len(ex) = Len(tide_data.extremes)
            /\ \A k \in 1..Len(ex) :
                  /\ ex[k].index \in 0..(Len(tide_model.normalised_heights) - 1)
                  /\ ex[k].index \in 0..(Len(tide_model.dates) - 1)
                  /\ Nearest([i \in 1..Len(hs) |-> hs[i].dt],
                             tide_data.extremes[k].dt, ex[k].index + 1)

\* an extreme midway between two samples has been mapped to the earlier one
C10_Witness ==
    /\ pc = "built"
    /\ \E k \in 1..Len(tide_model.extremes) :
          LET hs == tide_data.heights
              e  == tide_data.extremes[k].dt
              i  == tide_model.extremes[k].index + 1
          IN  /\ i + 1 <= Len(hs)
              /\ hs[i].dt < e
              /\ e - hs[i].dt = hs[i + 1].dt - e

(***************************************************************************)
(* Properties of GraphCanvas::paint.                                       *)
(***************************************************************************)
\* the kernel has a 1 at every position where the mask has one
Covers(kernel, mask) == \A i \in 1..9 : mask[i] = 1 => kernel[i] = 1

\* the columns and rows of the graph region left of the play head whose screen
\* pixel lies on the 128 x 32 canvas
PastCells ==
    {p \in (0..(current_index(window, now) - 1)) \X (0..(canvas.h - 1)) :
        canvas.x + p[1] < 128 /\ canvas.y + p[2] < 32}

ScreenPixel(p) == <<canvas.x + p[1], canvas.y + p[2]>>

\* C1 as claimed: left of the play head a pixel is forced to background unless
\* its neighbourhood has a 1 at every position of the mask [0,1,0,1,1,1,1,1,1];
\* kernel [0,1,1,1,1,1,1,1,1] is not erased, kernel [0,0,0,1,1,1,1,1,1] is.
C1_ErasedUnlessCovered ==
    pc = "painted" =>
        /\ \A p \in PastCells :
              ScreenPixel(p) \in trace.erased
                  <=> ~Covers(kernel_at(window, canvas, p[1], p[2]), FLOOD_FILL_MASK)
        /\ ~should_erase(<<0, 1, 1, 1, 1, 1, 1, 1, 1>>, FLOOD_FILL_MASK)
        /\ should_erase(<<0, 0, 0, 1, 1, 1, 1, 1, 1>>, FLOOD_FILL_MASK)

\* C1 as amended: left of the play head a pixel is forced to background exactly
\* when its neighbourhood has a 1 at every position of the mask, and is left as
\* the earlier passes painted it otherwise; kernel [0,1,1,1,1,1,1,1,1] is
\* erased, kernel [0,0,0,1,1,1,1,1,1] is not.
C1_ErasedIffCovered ==
    pc = "painted" =>
        /\ \A p \in PastCells :
              IF Covers(kernel_at(window, canvas, p[1], p[2]), FLOOD_FILL_MASK)
              THEN ScreenPixel(p) \in trace.erased /\ ScreenPixel(p) \notin img
              ELSE /\ ScreenPixel(p) \notin trace.erased
                   /\ ScreenPixel(p) \in img <=> ScreenPixel(p) \in trace.before
        /\ should_erase(<<0, 1, 1, 1, 1, 1, 1, 1, 1>>, FLOOD_FILL_MASK)
        /\ ~should_erase(<<0, 0, 0, 1, 1, 1, 1, 1, 1>>, FLOOD_FILL_MASK)

\* left of the play head one white pixel has been erased and another, whose
\* neighbourhood misses a position of the mask, is still white
C1_Witness ==
    /\ pc = "painted"
    /\ \E p \in PastCells :
          /\ ScreenPixel(p) \in trace.before
          /\ ScreenPixel(p) \in trace.erased
          /\ ScreenPixel(p) \notin img
    /\ \E p \in PastCells :
          /\ ~Covers(kernel_at(window, canvas, p[1], p[2]), FLOOD_FILL_MASK)
          /\ ScreenPixel(p) \in trace.before
          /\ ScreenPixel(p) \in img

\* C7 as claimed: a graph painted from the window of an empty model is blank:
\* no pixel of the graph region is foreground.
C7_EmptyModelPaintsBlank ==
    (pc = "painted" /\ Len(tide_data.heights) = 0) => img \cap Region(canvas) = {}

(***************************************************************************)
(* Properties of paint() on the layout of the program.                     *)
(***************************************************************************)
\* C5: a model built from zero samples, whatever extremes the response lists,
\* has no extremes, no date range and a current height below 0 at every
\* instant; its window is empty and NeedsUpdate; and the frame painted from
\* it is completed without a panic and has no pixel outside the image.
C5_EmptyModelDegrades ==
    Len(tide_data.heights) = 0 =>
        /\ pc # "panicked"
        /\ pc # "new" =>
              /\ Len(tide_model.extremes) = 0
              /\ Len(tide_model.normalised_heights) = 0
              /\ ~get_date_range(tide_model).some
              /\ \A t \in NowTimes :
                    RLt(get_current_norm_height(tide_model, t), RInt(0))
        /\ pc \notin {"new", "built"} =>
              /\ Len(window.normalised_heights) = 0
              /\ Len(window.dates) = 0
              /\ Len(window_extremes(window)) = 0
              /\ freshness = "NeedsUpdate"
        /\ img \subseteq Image
        /\ pc = "rendered" => ret = img /\ ret \subseteq Image

\* a frame of a model without samples, built from a response that lists
\* extremes, has been handed to the device
C5_Witness ==
    /\ pc = "rendered"
    /\ Len(tide_data.heights) = 0
    /\ Len(tide_data.extremes) > 0
    /\ Len(tide_model.dates) = 0

(***************************************************************************)
(* Properties of main().                                                   *)
(***************************************************************************)
\* C3 as claimed: no frame is painted from a window whose freshness is
\* NeedsUpdate: the window of the model rebuilt after a refresh is painted
\* only if it is Fresh.
C3_NeverPaintsNeedsUpdate == trace.painted # "NeedsUpdate"

\* C3 as amended: the match is made on the freshness of the window; a frame
\* painted in the Fresh arm is painted from a Fresh window; in the NeedsUpdate
\* arm the window the arm was entered with is not painted, the API is called
\* unless retries has passed MAX_RETRIES, which panics, and the frame that is
\* painted after a refresh is painted from the window of the rebuilt model,
\* whatever its freshness.
C3_RefreshThenPaint ==
    /\ [](/\ pc = "fresh" => freshness = "Fresh"
          /\ pc \in {"stale", "api", "loaded", "refreshed"} => freshness = "NeedsUpdate"
          /\ trace.arm = "Fresh" => trace.painted = "Fresh")
    /\ [][/\ pc = "stale" =>
                /\ img' = img
                /\ pc' = IF retries' > MAX_RETRIES THEN "panicked" ELSE "api"
          /\ (pc = "refreshed" /\ pc' = "sleep") =>
                /\ tide_model = TideModel_new(tide_data).val
                /\ window' = get_window(tide_model, now).window
                /\ trace'.painted = get_window(tide_model, now).freshness
                /\ trace'.arm = "NeedsUpdate"
          /\ img' # img => pc \in {"splash", "splash2", "fresh", "refreshed"}]_vars

\* a refresh has answered with a series that is still too short, and its
\* window has been painted
C3_Witness ==
    /\ pc = "sleep"
    /\ trace.arm = "NeedsUpdate"
    /\ trace.painted = "NeedsUpdate"
    /\ Len(tide_model.dates) > 0

\* C6 as claimed: with the data missing or malformed, on disk or from the API,
\* main goes on with an empty model: no step after the construction of the
\* model panics while the model is empty.
C6_EmptyModelKeepsRunning ==
    (Len(tide_data.heights) = 0 /\ Len(tide_model.dates) = 0) => pc # "panicked"

(***************************************************************************)
(* Properties of find_time_index.                                          *)
(***************************************************************************)
\* the instants main asks the model about at a reading of the clock: the
\* start of the window and the clock itself
AskedTimes == {now - EightHours, now}

\* C11: find_time_index(dates, target) returns None only when dates is empty;
\* otherwise it returns an index at which |dates[i] - target| is minimal, and
\* the smallest such index when several attain the minimum.
C11_NearestEarliestIndex ==
    pc \in {"built", "windowed"} =>
        /\ \A t \in AskedTimes :
              LET found == find_time_index(tide_model.dates, t)
              IN  /\ found.some <=> Len(tide_model.dates) > 0
                  /\ found.some => Nearest(tide_model.dates, t, found.val + 1)
        /\ (pc = "windowed" /\ Len(tide_model.dates) > 0) =>
              Nearest(tide_model.dates, now - EightHours, window.start_index + 1)

\* the start of the window lies midway between the first two samples, and the
\* window starts at the first
C11_Witness ==
    /\ pc = "windowed"
    /\ Len(tide_model.dates) >= 2
    /\ (now - EightHours) - tide_model.dates[1] = tide_model.dates[2] - (now - EightHours)
    /\ tide_model.dates[1] < tide_model.dates[2]
    /\ window.start_index = 0

(***************************************************************************)
(* Properties of calculate_pixel and should_erase.                         *)
(***************************************************************************)
\* C12: calculate_pixel returns 1 for every column outside the series; inside
\* it returns 1 exactly when y >= bounds.h - round(heights[x] * bounds.h), so
\* that rows at or below the bottom edge are filled and the heights
\* [0.25, 0.5, 0.75, 1.0] fill rows {3}, {2,3}, {1,2,3}, {0,1,2,3} of a 4 x 4
\* region.
C12_FilledPredicate ==
    (pc = "returned" /\ args[1] = "calculate_pixel") =>
        LET hs == args[2]
            h  == args[3].h
            x  == args[4]
            y  == args[5]
        IN  /\ ret \in {0, 1}
            /\ (x < 0 \/ x >= Len(hs)) => ret = 1
            /\ (x >= 0 /\ x < Len(hs)) =>
                  /\ ret = 1 <=> y >= h - Round(Rat(hs[x + 1].n * h, hs[x + 1].d))
                  /\ y >= h => ret = 1
            /\ (hs = QuarterRamp /\ h = 4 /\ x \in 0..3 /\ y \in 0..3) =>
                  (ret = 1 <=> y \in (3 - x)..3)

\* on the series of the test, row 2 of column 0 is empty
C12_Witness ==
    /\ pc = "returned"
    /\ args[1] = "calculate_pixel"
    /\ args[2] = QuarterRamp
    /\ args[3].h = 4
    /\ args[4] = 0
    /\ args[5] = 2
    /\ ret = 0

(***************************************************************************)
(* Properties of the passes of paint() on the layout of the program.       *)
(***************************************************************************)
\* the extremes of the model are in the order of their samples
ExtremesInOrder ==
    \A i \in 1..Len(tide_model.extremes) : \A j \in 1..Len(tide_model.extremes) :
        i < j => tide_model.extremes[i].index <= tide_model.extremes[j].index

InOrderFramesStayOnCanvas ==
    ExtremesInOrder => (pc # "panicked" /\ img \subseteq Image)

\* the column of the play head, when one is drawn
PlayHeadFound == find_time_index(window.dates, now)

PlayHeadColumn == canvas.x + PlayHeadFound.val

PlayHeadDrawn == PlayHeadFound.some /\ ULt(PlayHeadColumn, SCREEN_WIDTH)

\* C14 as claimed: with an index found and its column on the canvas, the play
\* head is a dashed line, white on even rows and black on odd rows, over every
\* row 0..31 of that column; otherwise no pixel is written.
C14_PlayHeadFullHeight ==
    [][(pc = "labels" /\ pc' = "head") =>
           IF PlayHeadDrawn
           THEN \A y \in 0..(SCREEN_HEIGHT - 1) :
                   <<PlayHeadColumn, y>> \in img' <=> y % 2 = 0
           ELSE img' = img]_vars

\* C14 as amended: the dashed line runs from the top row of the graph region
\* to the bottom row of the device, below the graph region where the region
\* ends higher; the rows above the graph region and every other column are
\* left as they were; otherwise no pixel is written.
C14_PlayHeadFromGraphTop ==
    [][(pc = "labels" /\ pc' = "head") =>
           IF PlayHeadDrawn
           THEN LET line == {<<PlayHeadColumn, y>> : y \in canvas.y..(SCREEN_HEIGHT - 1)}
                IN  /\ img' \ line = img \ line
                    /\ img' \cap line = {p \in line : p[2] % 2 = 0}
           ELSE img' = img]_vars

\* a play head has been drawn on a graph region that starts below row 0 and
\* ends above row 31: row 30, below the region, is white, and row 0 is not
C14_Witness ==
    /\ pc = "head"
    /\ PlayHeadDrawn
    /\ canvas.y > 0
    /\ canvas.y + canvas.h < SCREEN_HEIGHT
    /\ <<PlayHeadColumn, canvas.y>> \in img
    /\ <<PlayHeadColumn, SCREEN_HEIGHT - 2>> \in img
    /\ <<PlayHeadColumn, 0>> \notin img

(***************************************************************************)
(* Properties of ExtremeLabel::paint.                                      *)
(***************************************************************************)
\* the left column of the label, its underline row, and the text of the label
LabelColumn == canvas.x + args[2]

UnderlineRow == 0 + GlyphHeight + 2

LabelScanned == ULt(LabelColumn, SCREEN_WIDTH)

\* C15 as claimed: whatever the label's left column holds, when the row found
\* by the upward scan is at or above the underline row, row 0 and no row found
\* included, the descender draws nothing and the call does not panic.
C15_DescenderDegenerates ==
    (pc \in {"returned", "panicked"} /\ LabelScanned /\ trace.highest <= UnderlineRow)
        => (pc = "returned" /\ img = trace.lined)

\* the highest white pixel the waveform has in the label's left column, 32
\* when it has none
WaveTop ==
    IF \E y \in 0..(SCREEN_HEIGHT - 1) : <<LabelColumn, y>> \in trace.before
    THEN CHOOSE y \in 0..(SCREEN_HEIGHT - 1) :
            /\ <<LabelColumn, y>> \in trace.before
            /\ \A z \in 0..(y - 1) : <<LabelColumn, z>> \notin trace.before
    ELSE SCREEN_HEIGHT

\* the underline: the underline row over the label's width minus one, as far
\* as it lies on the canvas
Underline ==
    {p \in {<<LabelColumn + i, UnderlineRow>> :
                i \in 0..(TextWidth(HourMinute(args[1].date)) - 2)} :
        ULt(p[1], SCREEN_WIDTH)}

\* C16 as claimed: for a label whose left column is on the canvas, the
\* underline spans the label's width minus one, and the descender is a white
\* line in the left column from the underline row to one row short of the
\* highest white pixel of the waveform in that column (its last row is the
\* row above that pixel, or the row above that one).
C16_DescenderReachesWave ==
    (pc = "returned" /\ LabelScanned /\ WaveTop > UnderlineRow + 2
                     /\ WaveTop < SCREEN_HEIGHT) =>
        /\ Underline \subseteq img
        /\ \E last \in {WaveTop - 1, WaveTop - 2} :
              img = trace.lined \cup {<<LabelColumn, y>> : y \in UnderlineRow..last}

(***************************************************************************)
(* Properties of WaterMark::paint.                                         *)
(***************************************************************************)
\* the rows of the two caps of the gauge, and the pixels of caps and bar
BarTop == GaugePos.y

BarBottom == GaugePos.y + GaugeBounds.h - 1

GaugeFrame ==
    {<<GaugePos.x, BarTop>>, <<GaugePos.x, BarBottom>>}
    \cup {<<GaugePos.x + 1, y>> : y \in BarTop..BarBottom}

\* the row of the marker for the current normalised height
MarkerRow == lerp(get_current_norm_height(tide_model, now), BarBottom, BarTop)

\* C17: WaterMark.paint draws the caps, the bar and one marker pixel, at row
\* lerp(t, bar_bottom, bar_top) for the current normalised height t (the bottom
\* cap row for t = 0, the top cap row for t = 1), in column pos.x, or in column
\* pos.x - 1 when that row is the row of either cap.
C17_MarkerRowAndOffset ==
    [][(pc = "texts" /\ pc' = "marked") =>
           LET t == get_current_norm_height(tide_model, now)
               column == IF MarkerRow \in {BarTop, BarBottom}
                         THEN GaugePos.x - 1 ELSE GaugePos.x
           IN  /\ img' = img \cup GaugeFrame \cup {<<column, MarkerRow>>}
               /\ MarkerRow \in BarTop..BarBottom
               /\ REq(t, RInt(0)) => MarkerRow = BarBottom
               /\ REq(t, RInt(1)) => MarkerRow = BarTop
               /\ (RLt(RInt(0), t) /\ RLt(t, RInt(1))) =>
                     MarkerRow = Round(Rat(t.n * (BarTop - BarBottom) + BarBottom * t.d, t.d))]_vars

\* the current height is the high water mark: the marker sits left of the top
\* cap, and the pixel beside the cap on the bar's side of it is the bar's own
C17_Witness ==
    /\ pc = "marked"
    /\ REq(get_current_norm_height(tide_model, now), RInt(1))
    /\ <<GaugePos.x - 1, BarTop>> \in img
    /\ <<GaugePos.x - 1, BarTop + 1>> \notin img

\* the pixels of the gauge's two columns, marker column included, that are
\* white beside the caps and the bar
MarkerPixels ==
    (img \cap ({GaugePos.x - 1, GaugePos.x} \X (0..(IMG_HEIGHT - 1)))) \ GaugeFrame

\* the clock text, at rows 0..4, is the only other thing drawn in those columns
GaugeMarkerPixels == {p \in MarkerPixels : p[2] >= BarTop}

\* C18 as claimed: with an empty series get_current_norm_height returns a
\* value below 0, and WaterMark.paint writes no marker pixel on the canvas.
C18_SentinelOffScreen ==
    (pc = "marked" /\ Len(tide_model.dates) = 0) =>
        /\ RLt(get_current_norm_height(tide_model, now), RInt(0))
        /\ GaugeMarkerPixels = {}

\* C18 as amended: with an empty series get_current_norm_height returns a
\* value below 0, which lerp clamps to 0: the marker is drawn on the canvas,
\* on the row of the bottom cap and one pixel left of the cap.
C18_SentinelAtBottomCap ==
    (Len(tide_data.heights) = 0 /\ pc \notin {"new", "built", "windowed", "texts"}) =>
        /\ pc # "panicked"
        /\ RLt(get_current_norm_height(tide_model, now), RInt(0))
        /\ pc = "marked" => GaugeMarkerPixels = {<<GaugePos.x - 1, BarBottom>>}

\* the gauge of an empty model has been painted, with its marker beside the
\* bottom cap
C18_Witness ==
    /\ pc = "marked"
    /\ Len(tide_model.dates) = 0
    /\ tide_model.water_mark.high_water = 0
    /\ <<GaugePos.x - 1, BarBottom>> \in img

(***************************************************************************)
(* Properties of the retry counter of main().                              *)
(***************************************************************************)
\* C19 as claimed: a refresh that fails is retried on a later iteration, and
\* main ends over refreshes, by its panic or by returning the error of the
\* API, only once retries has passed MAX_RETRIES.
C19_FailedRefreshRetried ==
    (pc = "exited" \/ (pc = "panicked" /\ trace.cause = "retries"))
        => retries > MAX_RETRIES

\* C20: should_erase(kernel, FLOOD_FILL_MASK) is true for every kernel with a
\* 1 at each of the seven positions where the mask is 1, whatever its bits at
\* the two corner positions where the mask is 0, and false for every kernel
\* with a 0 at a position where the mask is 1.
C20_ShouldEraseCoversMask ==
    (pc = "returned" /\ args[1] = "should_erase") =>
        /\ args[3] = FLOOD_FILL_MASK
        /\ {i \in 1..9 : args[3][i] = 1} = {2, 4, 5, 6, 7, 8, 9}
        /\ (\A i \in {2, 4, 5, 6, 7, 8, 9} : args[2][i] = 1) => ret = TRUE
        /\ (\E i \in {2, 4, 5, 6, 7, 8, 9} : args[2][i] = 0) => ret = FALSE
        /\ args[2] \in {<<0, 1, 1, 1, 1, 1, 1, 1, 1>>, <<1, 1, 0, 1, 1, 1, 1, 1, 1>>}
              => ret = TRUE

\* the second kernel of test_should_erase has been found to be erased
C20_Witness ==
    /\ pc = "returned"
    /\ args[1] = "should_erase"
    /\ args[2] = <<1, 1, 0, 1, 1, 1, 1, 1, 1>>
    /\ ret = TRUE

(***************************************************************************)
(* Properties of the erase pass as a change of the frame.                  *)
(***************************************************************************)
\* the pixels of the graph region's rows in the columns from the region's left
\* edge up to, and not including, the column of the play-head index
PastRegion ==
    {<<canvas.x + col, canvas.y + row>> :
        col \in 0..(current_index(window, now) - 1), row \in 0..(canvas.h - 1)}

\* the pixels at or right of the column of the play-head index
FromPlayHead == {p \in Image : p[1] >= canvas.x + current_index(window, now)}

\* the pixels outside the rows of the graph region
OutsideRows == {p \in Image : p[2] < canvas.y \/ p[2] >= canvas.y + canvas.h}

\* C21: the erase pass of GraphCanvas::paint only sets pixels to background,
\* and changes none outside the graph region's rows in the columns strictly
\* left of the play-head index: the pixels at or right of the play-head
\* column, the pixels outside the region's rows, and, with index 0 (none
\* found), the whole buffer are the same before and after the pass.
C21_EraseOnlyLeftOfPlayHead ==
    [][(pc = "head" /\ pc' = "painted") =>
           /\ img' \subseteq img
           /\ img \ img' \subseteq PastRegion
           /\ img' \cap FromPlayHead = img \cap FromPlayHead
           /\ img' \cap OutsideRows = img \cap OutsideRows
           /\ current_index(window, now) = 0 => img' = img]_vars

\* the pass has erased a white pixel left of the play head, and has left white
\* a pixel of the play-head column and one of the graph region right of it
C21_Witness ==
    /\ pc = "painted"
    /\ current_index(window, now) > 0
    /\ trace.before \ img # {}
    /\ \E p \in img \cap Region(canvas) : p[1] = canvas.x + current_index(window, now)
    /\ \E p \in img \cap Region(canvas) : p[1] > canvas.x + current_index(window, now)

\* C22: in the loop of main retries is set to 0 by every iteration whose
\* window is Fresh and raised by one by every iteration whose window is
\* NeedsUpdate, and by nothing else; load_tides_from_api is called at most
\* MAX_RETRIES times between two Fresh iterations; the iteration that finds
\* NeedsUpdate with retries at MAX_RETRIES, the fourth in a row, panics
\* without calling the API; and retries never exceeds MAX_RETRIES + 1.
C22_RetryBudget ==
    /\ [](/\ retries \in 0..(MAX_RETRIES + 1)
          /\ trace.calls \in 0..MAX_RETRIES
          /\ pc = "api" => (retries \in 1..MAX_RETRIES /\ trace.calls = retries - 1)
          /\ retries = MAX_RETRIES + 1 => (pc = "panicked" /\ trace.cause = "retries"))
    /\ [][/\ pc = "fresh" => retries' = 0
          /\ pc = "stale" => retries' = retries + 1
          /\ (pc = "stale" /\ retries < MAX_RETRIES) => pc' = "api"
          /\ (pc = "stale" /\ retries = MAX_RETRIES) =>
                 /\ pc' = "panicked"
                 /\ trace'.cause = "retries"
                 /\ trace'.calls = trace.calls
          /\ pc \notin {"fresh", "stale", "splash2"} => retries' = retries
          /\ trace'.calls # trace.calls => pc \in {"fresh", "api"}]_vars

\* main has panicked on the fourth NeedsUpdate iteration in a row, after three
\* calls of the API
C22_Witness ==
    /\ pc = "panicked"
    /\ trace.cause = "retries"
    /\ retries = MAX_RETRIES + 1
    /\ trace.calls = MAX_RETRIES

====
